---- MODULE Spec2Model ----
(***************************************************************************)
(* Booking engine of the fitness-class booking API:                        *)
(*   BookingService      (src/src/service/booking_service.py)              *)
(*   BookingRepository   (src/src/domain/repository.py)                    *)
(*   SQL statements      (src/src/db_schema.py)                            *)
(*   connection handling (src/src/config/database.py)                      *)
(*   HTTP wiring         (src/src/port/booking_port.py)                    *)
(*                                                                         *)
(* Every caller runs on its own SQLite connection.  The committed database *)
(* is (classes, bookings); a transaction's uncommitted writes live in      *)
(* tx[p] and are invisible to every other connection.  SQLite's file locks *)
(* (rollback-journal mode, the default the code never changes) are kept in *)
(* lock[p]: a transaction that has read holds SHARED, one that has written *)
(* holds RESERVED, and a commit needs every other SHARED lock released.    *)
(***************************************************************************)
EXTENDS Integers, Sequences, FiniteSets, TLC

\* ------------------------------------------------------------------ bounds
NumProcs == 2
MaxCalls == 2
MaxTime == 2
MaxSlots == 2

Procs == 1..NumProcs
ClassIds == {1, 2}
\* a class_id no stored class has
MissingClassId == CHOOSE c \in 1..(Cardinality(ClassIds) + 1) : c \notin ClassIds
RequestClassIds == ClassIds \cup {MissingClassId}
Emails == {"a@x.com", "b@x.com"}
\* a string with no "@" in it, and what a lookup by email may be given
InvalidEmail == "invalid-email"
LookupEmails == Emails \cup {InvalidEmail}

\* ------------------------------------------------------- values of the code
\* Python's None and a present value, as sequences of length 0 and 1.
None == << >>
Some(x) == << x >>
IsNone(o) == o = << >>
Get(o) == o[1]

\* What BookingRepository.__init__ is handed as db_context: the function
\* get_database itself (BookingRouter._get_booking_service), or a context
\* manager object that opens a connection when entered.
DbFunction == "get_database"
DbContextManager == "context_manager"
DbContexts == {DbFunction, DbContextManager}

\* `with self.db_context as conn` raises when db_context is a plain function:
\* a function has no __enter__.
WithRaises(ctx) == ctx = DbFunction

\* BookingResult.message of BookingService.create_booking
MsgNotFound == "Class with ID not found"
MsgPast == "Cannot book past or ongoing classes"
MsgFull == "Class is fully booked"
MsgDuplicate == "You already have a booking for this class"
MsgFailed == "Failed to create booking. Please try again."
MsgSuccess == "Successfully booked"
MsgInternal == "Internal error occurred while processing booking"
\* BookingResult.message of BookingService.cancel_booking
MsgCancelled == "Booking cancelled successfully"
MsgNotOwned == "Booking not found or not owned by this email"
MsgCancelInternal == "Internal error occurred while cancelling booking"
\* An exception the callee lets through to its caller.
Raised == [success |-> FALSE, message |-> "raise", booking_id |-> 0, value |-> << >>]

BookingResult(success, message, booking_id) ==
    [success |-> success, message |-> message, booking_id |-> booking_id,
     value |-> None]
ValueResult(v) ==
    [success |-> TRUE, message |-> "", booking_id |-> 0, value |-> v]
NoResult == [success |-> FALSE, message |-> "", booking_id |-> 0, value |-> None]

NoReq == [op |-> "none", class_id |-> 0, client_email |-> "", booking_id |-> 0,
          db_context |-> ""]
NoTx == [ins |-> FALSE, dec |-> FALSE, booking_id |-> 0, booking_time |-> 0]
NoPre == [avail |-> 0, dup |-> FALSE, past |-> FALSE]
\* The exception a call ran into: none, the `with` statement's, sqlite3's
\* "database is locked", or any other storage error; and the step it hit.
NoExc == [kind |-> "none", at |-> ""]
Exc(kind, at) == [kind |-> kind, at |-> at]

VARIABLES
    classes,    \* table classes: id -> row
    bookings,   \* table bookings: sequence of rows, row i has id i
    now,        \* the clock (datetime.now / datetime.utcnow)
    pc,         \* per caller: the next step of its call
    req,        \* per caller: the request being served
    class_obj,  \* per caller: create_booking's local class_obj
    lock,       \* per caller: SQLite lock of its connection
    tx,         \* per caller: uncommitted writes of its transaction
    result,     \* per caller: the value the call returned
    pre,        \* history: what the store held for the request when the call began
    solo,       \* history: no other call was in flight during this call
    exc,        \* history: the exception raised inside this call
    changed,    \* history: a step of this call changed the committed store
    last,       \* history: the call that returned last, when it was a booking
                \* call that ran with no other call in flight
    ncalls      \* calls begun so far

vars == << classes, bookings, now, pc, req, class_obj, lock, tx, result,
           pre, solo, exc, changed, last, ncalls >>


\* ------------------------------------------------------------ the database
\* classes.datetime_utc is an ISO string; seed data writes utc_time.isoformat(),
\* an instant with offset +00:00.  Kept as wall-clock time plus offset.
IsoUtc(t) == [wall |-> t, offset |-> 0]

\* datetime.fromisoformat(s.replace('Z', '+00:00')).replace(tzinfo=pytz.UTC):
\* replace() overwrites the offset, it does not convert.
ClassDatetime(s) == s.wall

\* The instant an ISO string denotes.
Instant(s) == s.wall - s.offset

\* insert_seed_data: available_slots = total_slots, every class in the future,
\* each at a time of its own.
SeedTime(c) == c
SeedClass(t, n) ==
    [datetime_utc |-> IsoUtc(t), total_slots |-> n, available_slots |-> n]

\* (mutant) fetchone() never comes back empty: an unknown id yields some row
GetClassRowNeverEmpty(c) ==
    IF c \in DOMAIN classes THEN Some(classes[c])
    ELSE Some(classes[CHOOSE d \in DOMAIN classes : TRUE])

\* GET_CLASS_BY_ID
GetClassRow(c) == IF c \in DOMAIN classes THEN Some(classes[c]) ELSE None

\* (mutant) the status literal misspelt: no row ever matches
ExistingCountWrongStatus(c, e) ==
    Cardinality({i \in DOMAIN bookings :
                    /\ bookings[i].class_id = c
                    /\ bookings[i].client_email = e
                    /\ bookings[i].status = "CONFIRMED"})

\* (mutant) class_id = ? left out of the WHERE clause
ExistingCountAnyClass(c, e) ==
    Cardinality({i \in DOMAIN bookings :
                    /\ bookings[i].client_email = e
                    /\ bookings[i].status = "confirmed"})

\* (mutant) client_email = ? left out of the WHERE clause
ExistingCountAnyEmail(c, e) ==
    Cardinality({i \in DOMAIN bookings :
                    /\ bookings[i].class_id = c
                    /\ bookings[i].status = "confirmed"})

\* CHECK_EXISTING_BOOKING: COUNT(*) ... status = 'confirmed'
ExistingCount(c, e) ==
    Cardinality({i \in DOMAIN bookings :
                    /\ bookings[i].class_id = c
                    /\ bookings[i].client_email = e
                    /\ bookings[i].status = "confirmed"})

\* (mutant) count > 1 instead of count > 0
CheckExistingBookingOffByOne(c, e) == ExistingCount(c, e) > 1

\* BookingRepository.check_existing_booking: count > 0
CheckExistingBooking(c, e) == ExistingCount(c, e) > 0

\* (mutant) the id taken as the number of rows before the INSERT
LastRowIdBeforeInsert == Len(bookings)

\* cursor.lastrowid of INSERT_BOOKING: AUTOINCREMENT, no row is ever deleted
LastRowId == Len(bookings) + 1

\* (mutant) the INSERT names the id column and binds class_id to it
BookingRowIdFromClass(p) ==
    [id |-> req[p].class_id, class_id |-> req[p].class_id,
     client_email |-> req[p].client_email,
     booking_time |-> tx[p].booking_time, status |-> "confirmed"]

\* The row INSERT_BOOKING writes; status takes the column default.
BookingRow(p) ==
    [id |-> tx[p].booking_id, class_id |-> req[p].class_id,
     client_email |-> req[p].client_email,
     booking_time |-> tx[p].booking_time, status |-> "confirmed"]

\* UPDATE_CLASS_SLOTS: SET available_slots = available_slots - 1
\*                     WHERE id = ? AND available_slots > 0
SlotsRowCount(c) ==
    IF c \in DOMAIN classes /\ classes[c].available_slots > 0 THEN 1 ELSE 0
\* (mutant) the sign of the update slipped
DecrementedClassesUp(c) ==
    [classes EXCEPT ![c].available_slots = @ + 1]
\* (mutant) the UPDATE takes the slot off total_slots as well
DecrementedClassesAndTotal(c) ==
    [classes EXCEPT ![c].available_slots = @ - 1, ![c].total_slots = @ - 1]
DecrementedClasses(c) ==
    [classes EXCEPT ![c].available_slots = @ - 1]

\* (mutant) INSERT OR REPLACE on the id of the newest row
CommittedBookingsReplacing(p) ==
    IF ~tx[p].ins THEN bookings
    ELSE IF bookings = << >> THEN Append(bookings, BookingRow(p))
    ELSE [bookings EXCEPT ![Len(bookings)] = BookingRow(p)]

\* conn.commit(): the transaction's writes become the committed database.
CommittedBookings(p) ==
    IF tx[p].ins THEN Append(bookings, BookingRow(p)) ELSE bookings
CommittedClasses(p) ==
    IF tx[p].dec THEN DecrementedClasses(req[p].class_id) ELSE classes

\* (mutants) a rollback that leaves the transaction's writes in place
RolledBackBookingsKept(p) == CommittedBookings(p)
RolledBackClassesKept(p) == CommittedClasses(p)

\* conn.rollback(), and conn.close() with a transaction open: the writes are
\* dropped.
RolledBackBookings(p) == bookings
RolledBackClasses(p) == classes

\* SQLite locks of the other connections
OtherReserved(p) == \E q \in Procs \ {p} : lock[q] = "reserved"
OtherShared(p) == \E q \in Procs \ {p} : lock[q] = "shared"

\* --------------------------------------------------------------- the calls
Init ==
    /\ \E n \in [ClassIds -> 1..MaxSlots] :
          classes = [c \in ClassIds |-> SeedClass(SeedTime(c), n[c])]
    /\ bookings = << >>
    /\ now = 0
    /\ pc = [p \in Procs |-> "idle"]
    /\ req = [p \in Procs |-> NoReq]
    /\ class_obj = [p \in Procs |-> None]
    /\ lock = [p \in Procs |-> "none"]
    /\ tx = [p \in Procs |-> NoTx]
    /\ result = [p \in Procs |-> NoResult]
    /\ pre = [p \in Procs |-> NoPre]
    /\ solo = [p \in Procs |-> FALSE]
    /\ exc = [p \in Procs |-> NoExc]
    /\ changed = [p \in Procs |-> FALSE]
    /\ last = None
    /\ ncalls = 0

\* What the store holds for a request when its call begins.
PreOf(c, e) ==
    [avail |-> IF c \in DOMAIN classes THEN classes[c].available_slots ELSE 0,
     dup |-> ExistingCount(c, e) > 0,
     past |-> c \in DOMAIN classes /\ Instant(classes[c].datetime_utc) <= now]

\* A caller begins a call: one request, one service, one repository.  Callers
\* are interchangeable, so a new call takes the first idle one.
Begin(p, r) ==
    /\ pc[p] = "idle"
    /\ \A q \in Procs : q < p => pc[q] # "idle"
    /\ ncalls < MaxCalls
    /\ ncalls' = ncalls + 1
    /\ req' = [req EXCEPT ![p] = r]
    /\ pre' = [pre EXCEPT ![p] = PreOf(r.class_id, r.client_email)]
    /\ solo' = [q \in Procs |->
                  IF q = p THEN \A o \in Procs \ {p} : pc[o] = "idle" ELSE FALSE]
    /\ changed' = [changed EXCEPT ![p] = FALSE]
    /\ exc' = [exc EXCEPT ![p] = NoExc]

\* The call returns r to its caller.
Finish(p, r) ==
    /\ pc' = [pc EXCEPT ![p] = "done"]
    /\ result' = [result EXCEPT ![p] = r]

\* The connection is closed: its lock is released, its open transaction dropped.
CloseConnection(p) ==
    /\ lock' = [lock EXCEPT ![p] = "none"]
    /\ tx' = [tx EXCEPT ![p] = NoTx]

\* BookingService.create_booking is entered.
StartBooking(p, c, e, ctx) ==
    /\ Begin(p, [op |-> "book", class_id |-> c, client_email |-> e,
                 booking_id |-> 0, db_context |-> ctx])
    /\ pc' = [pc EXCEPT ![p] = "svc_get_class"]
    /\ UNCHANGED << classes, bookings, now, class_obj, lock, tx, result, last >>

\* BookingRepository.create_booking called directly, without the service.
StartRepoBooking(p, c, e) ==
    /\ Begin(p, [op |-> "repo_book", class_id |-> c, client_email |-> e,
                 booking_id |-> 0, db_context |-> DbContextManager])
    /\ pc' = [pc EXCEPT ![p] = "repo_begin"]
    /\ UNCHANGED << classes, bookings, now, class_obj, lock, tx, result, last >>

\* What the caller gets when BookingRepository.create_booking returns None,
\* raises, or returns the Booking: the repository's own caller gets just that;
\* BookingService.create_booking turns them into lines 131-135, 144-149 and
\* 137-142.
NoneReturned(p) ==
    IF req[p].op = "book" THEN BookingResult(FALSE, MsgFailed, 0)
    ELSE ValueResult(None)
ExceptionReturned(p) ==
    IF req[p].op = "book" THEN BookingResult(FALSE, MsgInternal, 0)
    ELSE Raised
BookingReturned(p) ==
    IF req[p].op = "book" THEN BookingResult(TRUE, MsgSuccess, tx[p].booking_id)
    ELSE ValueResult(Some(BookingRow(p)))

\* history: did this step of p change the committed store
NoteChange(p) ==
    changed' = [changed EXCEPT ![p] = @ \/ classes' # classes \/ bookings' # bookings]

\* (mutant) a failed attempt is rolled back and tried again from the start
\* instead of being answered
AbortRetries(p, r) ==
    /\ bookings' = RolledBackBookings(p)
    /\ classes' = RolledBackClasses(p)
    /\ NoteChange(p)
    /\ CloseConnection(p)
    /\ pc' = [pc EXCEPT ![p] = IF req[p].op = "book" THEN "svc_get_class"
                                ELSE "repo_begin"]
    /\ result' = result

\* The transaction of p ends without a commit (conn.rollback(), or the
\* connection closed by get_database's finally) and the call returns r.
Abort(p, r) ==
    /\ bookings' = RolledBackBookings(p)
    /\ classes' = RolledBackClasses(p)
    /\ NoteChange(p)
    /\ CloseConnection(p)
    /\ Finish(p, r)

\* (mutant) create_booking without its `except Exception`: the exception
\* reaches the caller
RaiseInBookingPropagates(p, kind) ==
    /\ Abort(p, Raised)
    /\ exc' = [exc EXCEPT ![p] = Exc(kind, pc[p])]

\* A store operation of p raises: the repository rolls back and re-raises,
\* create_booking's `except Exception` turns it into the internal-error result.
RaiseInBooking(p, kind) ==
    /\ Abort(p, ExceptionReturned(p))
    /\ exc' = [exc EXCEPT ![p] = Exc(kind, pc[p])]

\* (mutant) the comparison with the clock excludes the boundary
ServicePreCheckStrict(row, t) ==
    IF IsNone(row) THEN MsgNotFound
    ELSE IF ClassDatetime(Get(row).datetime_utc) < t THEN MsgPast
    ELSE IF Get(row).available_slots <= 0 THEN MsgFull
    ELSE ""

\* (mutant) the check of available_slots left out
ServicePreCheckNoSlots(row, t) ==
    IF IsNone(row) THEN MsgNotFound
    ELSE IF ClassDatetime(Get(row).datetime_utc) <= t THEN MsgPast
    ELSE ""

\* (mutant) available_slots < 0 instead of <= 0
ServicePreCheckSlotsBelowZero(row, t) ==
    IF IsNone(row) THEN MsgNotFound
    ELSE IF ClassDatetime(Get(row).datetime_utc) <= t THEN MsgPast
    ELSE IF Get(row).available_slots < 0 THEN MsgFull
    ELSE ""

\* create_booking, lines 85-114, on the row get_class_by_id returned and the
\* clock: the message of the rejection, or "" when the checks pass.
ServicePreCheck(row, t) ==
    IF IsNone(row) THEN MsgNotFound
    ELSE IF ClassDatetime(Get(row).datetime_utc) <= t THEN MsgPast
    ELSE IF Get(row).available_slots <= 0 THEN MsgFull
    ELSE ""

\* (mutant) the `if not class_row` check left out of the transaction
RepoRejectsNoExistenceCheck(class_row, existing_count) ==
    IF IsNone(class_row) THEN existing_count > 0
    ELSE \/ Get(class_row).available_slots <= 0
         \/ existing_count > 0

\* (mutant) the duplicate check left out of the transaction
RepoRejectsNoDuplicateCheck(class_row, existing_count) ==
    \/ IsNone(class_row)
    \/ Get(class_row).available_slots <= 0

\* BookingRepository.create_booking, lines 127-142, inside the transaction:
\* TRUE when one of the three checks returns None.
RepoRejects(class_row, existing_count) ==
    \/ IsNone(class_row)
    \/ Get(class_row).available_slots <= 0
    \/ existing_count > 0

\* create_booking, lines 83-114: get_class_by_id (one SELECT on a connection of
\* its own), then the future-date check against the clock, then the check of
\* the available_slots that were read.
SvcGetClass(p) ==
    /\ pc[p] = "svc_get_class"
    /\ IF WithRaises(req[p].db_context)
       THEN /\ RaiseInBooking(p, "context")
            /\ UNCHANGED class_obj
       ELSE LET row == GetClassRow(req[p].class_id)
                msg == ServicePreCheck(row, now) IN
            /\ class_obj' = [class_obj EXCEPT ![p] = row]
            /\ UNCHANGED << classes, bookings, lock, tx, exc, changed >>
            /\ IF msg # ""
               THEN Finish(p, BookingResult(FALSE, msg, 0))
               ELSE /\ pc' = [pc EXCEPT ![p] = "svc_check_existing"]
                    /\ UNCHANGED result
    /\ UNCHANGED << now, req, pre, solo, last, ncalls >>

\* create_booking, lines 116-126: check_existing_booking (one SELECT on a
\* connection of its own).
SvcCheckExisting(p) ==
    /\ pc[p] = "svc_check_existing"
    /\ IF CheckExistingBooking(req[p].class_id, req[p].client_email)
       THEN Finish(p, BookingResult(FALSE, MsgDuplicate, 0))
       ELSE /\ pc' = [pc EXCEPT ![p] = "repo_begin"]
            /\ UNCHANGED result
    /\ UNCHANGED << classes, bookings, now, req, class_obj, lock, tx,
                    pre, solo, exc, changed, last, ncalls >>

\* BookingRepository.create_booking, lines 116-142: BEGIN, the class row and
\* the duplicate count are read again; the reads take the SHARED lock, which
\* the transaction keeps.  A `return None` leaves the `with` block, the
\* connection is closed, and the service answers MsgFailed (lines 131-135).
RepoBegin(p) ==
    /\ pc[p] = "repo_begin"
    /\ IF RepoRejects(GetClassRow(req[p].class_id),
                      ExistingCount(req[p].class_id, req[p].client_email))
       THEN /\ Abort(p, NoneReturned(p))
       ELSE /\ lock' = [lock EXCEPT ![p] = "shared"]
            /\ pc' = [pc EXCEPT ![p] = "repo_insert"]
            /\ UNCHANGED << classes, bookings, tx, result, changed >>
    /\ UNCHANGED << now, req, class_obj, pre, solo, exc, last, ncalls >>

\* lines 144-153: booking_time = utcnow(), INSERT_BOOKING, lastrowid.  The
\* INSERT needs the RESERVED lock; a transaction that already holds SHARED
\* gets "database is locked" at once when another connection holds RESERVED.
RepoInsert(p) ==
    /\ pc[p] = "repo_insert"
    /\ IF OtherReserved(p)
       THEN RaiseInBooking(p, "locked")
       ELSE /\ lock' = [lock EXCEPT ![p] = "reserved"]
            /\ tx' = [tx EXCEPT ![p] = [@ EXCEPT !.ins = TRUE,
                                                 !.booking_id = LastRowId,
                                                 !.booking_time = now]]
            /\ pc' = [pc EXCEPT ![p] = "repo_update"]
            /\ UNCHANGED << classes, bookings, result, exc, changed >>
    /\ UNCHANGED << now, req, class_obj, pre, solo, last, ncalls >>

\* lines 155-161: UPDATE_CLASS_SLOTS; rowcount 0 rolls back and returns None.
RepoUpdateSlots(p) ==
    /\ pc[p] = "repo_update"
    /\ IF SlotsRowCount(req[p].class_id) = 0
       THEN Abort(p, NoneReturned(p))
       ELSE /\ tx' = [tx EXCEPT ![p].dec = TRUE]
            /\ pc' = [pc EXCEPT ![p] = "repo_commit"]
            /\ UNCHANGED << classes, bookings, lock, result, changed >>
    /\ UNCHANGED << now, req, class_obj, pre, solo, exc, last, ncalls >>

\* lines 163-176 and the service's lines 137-142: conn.commit() succeeds once
\* no other connection holds SHARED; the Booking is returned and the service
\* answers success with its id.
RepoCommit(p) ==
    /\ pc[p] = "repo_commit"
    /\ ~OtherShared(p)
    /\ bookings' = CommittedBookings(p)
    /\ classes' = CommittedClasses(p)
    /\ NoteChange(p)
    /\ CloseConnection(p)
    /\ Finish(p, BookingReturned(p))
    /\ UNCHANGED << now, req, class_obj, pre, solo, exc, last, ncalls >>

\* conn.commit() while another connection keeps SHARED until sqlite3's busy
\* timeout runs out: "database is locked" is raised.
RepoCommitBusy(p) ==
    /\ pc[p] = "repo_commit"
    /\ OtherShared(p)
    /\ RaiseInBooking(p, "locked")
    /\ UNCHANGED << now, req, class_obj, pre, solo, last, ncalls >>

\* Any store operation of a booking call may raise (I/O error, disk full).
StorageException(p) ==
    /\ pc[p] \in {"svc_get_class", "svc_check_existing", "repo_begin",
                  "repo_insert", "repo_update", "repo_commit"}
    /\ RaiseInBooking(p, "io")
    /\ UNCHANGED << now, req, class_obj, pre, solo, last, ncalls >>

\* The worker dies inside the repository transaction: nothing is returned, the
\* journal is rolled back when the database is next opened.
Crash(p) ==
    /\ pc[p] \in {"repo_insert", "repo_update", "repo_commit"}
    /\ bookings' = RolledBackBookings(p)
    /\ classes' = RolledBackClasses(p)
    /\ NoteChange(p)
    /\ CloseConnection(p)
    /\ pc' = [pc EXCEPT ![p] = "idle"]
    /\ req' = [req EXCEPT ![p] = NoReq]
    /\ class_obj' = [class_obj EXCEPT ![p] = None]
    /\ UNCHANGED << now, result, pre, solo, exc, last, ncalls >>

\* (mutant) update_class_slots with a conn.commit() after the UPDATE
UpdateClassSlotsCommitted(p, c) ==
    /\ Begin(p, [op |-> "slots", class_id |-> c, client_email |-> "",
                 booking_id |-> 0, db_context |-> DbContextManager])
    /\ bookings' = bookings
    /\ classes' = IF ~OtherReserved(p) /\ SlotsRowCount(c) > 0
                  THEN DecrementedClasses(c) ELSE classes
    /\ IF OtherReserved(p)
       THEN Finish(p, Raised)
       ELSE Finish(p, ValueResult(SlotsRowCount(c) > 0))
    /\ UNCHANGED << now, class_obj, lock, tx, last >>

\* BookingRepository.update_class_slots called on its own: the UPDATE opens an
\* implicit transaction, rowcount is returned, and the `with` block is left
\* without a commit: get_database closes the connection and the write is
\* dropped.  The UPDATE waits for the RESERVED lock; when another connection
\* keeps it past the busy timeout, "database is locked" is raised.
UpdateClassSlots(p, c) ==
    /\ Begin(p, [op |-> "slots", class_id |-> c, client_email |-> "",
                 booking_id |-> 0, db_context |-> DbContextManager])
    /\ bookings' = RolledBackBookings(p)
    /\ classes' = RolledBackClasses(p)
    /\ IF OtherReserved(p)
       THEN Finish(p, Raised)
       ELSE Finish(p, ValueResult(SlotsRowCount(c) > 0))
    /\ UNCHANGED << now, class_obj, lock, tx, last >>

\* (mutant) a cancel_booking that reaches the store and gives the slot back
CancelBookingRestoring(p, b, e) ==
    /\ Begin(p, [op |-> "cancel", class_id |-> 0, client_email |-> e,
                 booking_id |-> b, db_context |-> DbContextManager])
    /\ IF /\ b \in DOMAIN bookings
          /\ bookings[b].client_email = e
          /\ bookings[b].status = "confirmed"
       THEN /\ classes' = [classes EXCEPT
                              ![bookings[b].class_id].available_slots = @ + 1]
            /\ Finish(p, BookingResult(TRUE, MsgCancelled, 0))
       ELSE /\ classes' = classes
            /\ Finish(p, BookingResult(FALSE, MsgNotOwned, 0))
    /\ UNCHANGED << bookings, now, class_obj, lock, tx, last >>

\* BookingService.cancel_booking: self.repository.cancel_booking is looked up
\* on a BookingRepository, which defines no such method; the AttributeError is
\* caught by `except Exception`.
CancelBooking(p, b, e) ==
    /\ Begin(p, [op |-> "cancel", class_id |-> 0, client_email |-> e,
                 booking_id |-> b, db_context |-> DbContextManager])
    /\ Finish(p, BookingResult(FALSE, MsgCancelInternal, 0))
    /\ UNCHANGED << classes, bookings, now, class_obj, lock, tx, last >>

\* (mutant) booked_slots computed as the slots that are left
AvailabilityInfoBookedIsLeft(row) ==
    [total_slots |-> row.total_slots,
     available_slots |-> row.available_slots,
     booked_slots |-> row.available_slots,
     is_available |-> row.available_slots > 0]

\* BookingService.get_class_availability: one get_class_by_id, whose exception
\* is re-raised.
AvailabilityInfo(row) ==
    [total_slots |-> row.total_slots,
     available_slots |-> row.available_slots,
     booked_slots |-> row.total_slots - row.available_slots,
     is_available |-> row.available_slots > 0]
\* (mutant) the availability query takes the slot it reports
GetClassAvailabilityTakingSlot(p, c) ==
    /\ Begin(p, [op |-> "availability", class_id |-> c, client_email |-> "",
                 booking_id |-> 0, db_context |-> DbContextManager])
    /\ IF IsNone(GetClassRow(c))
       THEN Finish(p, ValueResult(None))
       ELSE Finish(p, ValueResult(Some(AvailabilityInfo(Get(GetClassRow(c))))))
    /\ classes' = IF SlotsRowCount(c) > 0 THEN DecrementedClasses(c) ELSE classes
    /\ UNCHANGED << bookings, now, class_obj, lock, tx, last >>

GetClassAvailability(p, c) ==
    /\ Begin(p, [op |-> "availability", class_id |-> c, client_email |-> "",
                 booking_id |-> 0, db_context |-> DbContextManager])
    /\ IF IsNone(GetClassRow(c))
       THEN Finish(p, ValueResult(None))
       ELSE Finish(p, ValueResult(Some(AvailabilityInfo(Get(GetClassRow(c))))))
    /\ UNCHANGED << classes, bookings, now, class_obj, lock, tx, last >>

\* BookingRepository.check_existing_booking called on its own: one SELECT.
CheckExisting(p, c, e) ==
    /\ Begin(p, [op |-> "exists", class_id |-> c, client_email |-> e,
                 booking_id |-> 0, db_context |-> DbContextManager])
    /\ Finish(p, ValueResult(CheckExistingBooking(c, e)))
    /\ UNCHANGED << classes, bookings, now, class_obj, lock, tx, last >>

\* get_bookings_by_email, service line 157: `not email or "@" not in email`
HasAt(e) == e \in Emails

\* (mutant) the WHERE clause of GET_BOOKINGS_BY_EMAIL left out
BookingsOfEmailAll(e) ==
    {i \in DOMAIN bookings : bookings[i].class_id \in DOMAIN classes}

\* GET_BOOKINGS_BY_EMAIL: bookings JOIN classes ON class_id = id
\*                        WHERE client_email = ?
BookingsOfEmail(e) ==
    {i \in DOMAIN bookings : /\ bookings[i].class_id \in DOMAIN classes
                             /\ bookings[i].client_email = e}

\* ORDER BY b.booking_time DESC; rows of one booking_time in the order of
\* their ids.
RECURSIVE ByBookingTimeDesc(_)
ByBookingTimeDesc(S) ==
    IF S = {} THEN << >>
    ELSE LET m == CHOOSE i \in S : \A j \in S :
                     \/ bookings[j].booking_time < bookings[i].booking_time
                     \/ /\ bookings[j].booking_time = bookings[i].booking_time
                        /\ i <= j
         IN << bookings[m] >> \o ByBookingTimeDesc(S \ {m})

\* BookingService.get_bookings_by_email: an email without "@" is answered []
\* before the repository is touched; the repository's exception is re-raised.
GetBookingsByEmail(p, e, ctx) ==
    /\ Begin(p, [op |-> "lookup", class_id |-> 0, client_email |-> e,
                 booking_id |-> 0, db_context |-> ctx])
    /\ IF ~HasAt(e) THEN Finish(p, ValueResult(<< >>))
       ELSE IF WithRaises(ctx) THEN Finish(p, Raised)
       ELSE Finish(p, ValueResult(ByBookingTimeDesc(BookingsOfEmail(e))))
    /\ UNCHANGED << classes, bookings, now, class_obj, lock, tx, last >>

\* (mutant) >= instead of > in the WHERE clause
UpcomingClassIdsInclusive(t) ==
    {c \in DOMAIN classes : Instant(classes[c].datetime_utc) >= t}

\* GET_ALL_UPCOMING_CLASSES: WHERE datetime(datetime_utc) > datetime('now');
\* SQLite's datetime() applies the offset of the string.
UpcomingClassIds(t) ==
    {c \in DOMAIN classes : Instant(classes[c].datetime_utc) > t}

\* ORDER BY datetime_utc compares the stored text; ISO strings of one offset
\* compare as their wall-clock times do.
IsoTextLess(s, t) ==
    \/ s.wall < t.wall
    \/ s.wall = t.wall /\ s.offset < t.offset

\* The upcoming rows in ORDER BY datetime_utc, each with its id.
RECURSIVE ByDatetimeText(_)
ByDatetimeText(S) ==
    IF S = {} THEN << >>
    ELSE LET m == CHOOSE c \in S : \A d \in S \ {c} :
                     \/ IsoTextLess(classes[c].datetime_utc, classes[d].datetime_utc)
                     \/ /\ classes[c].datetime_utc = classes[d].datetime_utc
                        /\ c < d
         IN << [id |-> m, row |-> classes[m]] >> \o ByDatetimeText(S \ {m})

\* BookingRepository.get_all_upcoming_classes: one SELECT.
GetAllUpcomingClasses(p) ==
    /\ Begin(p, [op |-> "upcoming", class_id |-> 0, client_email |-> "",
                 booking_id |-> 0, db_context |-> DbContextManager])
    /\ Finish(p, ValueResult(ByDatetimeText(UpcomingClassIds(now))))
    /\ UNCHANGED << classes, bookings, now, class_obj, lock, tx, last >>

\* BookingRouter.book_class, lines 106-127, on the BookingResult of
\* create_booking.  `"not found" in result.message.lower()`: of the messages
\* of the service, these hold the phrase.
ContainsNotFound(m) == m \in {MsgNotFound, MsgNotOwned}
\* The status code of the response: SuccessResponse is sent with FastAPI's
\* default 200; a failure is 404 when the message holds "not found" and 400
\* in both of the remaining branches; an exception reaching the handler is 500.
StatusCode(r) ==
    IF r = Raised THEN 500
    ELSE IF r.success THEN 200
    ELSE IF ContainsNotFound(r.message) THEN 404
    ELSE 400
\* data["booking_id"] of the SuccessResponse
ResponseBookingId(r) == r.booking_id

\* The caller has its answer; the service and repository objects of the
\* request are dropped.
Return(p) ==
    /\ pc[p] = "done"
    /\ last' = IF req[p].op = "book" /\ solo[p]
               THEN Some([class_id |-> req[p].class_id,
                          client_email |-> req[p].client_email,
                          db_context |-> req[p].db_context,
                          message |-> result[p].message,
                          exc |-> exc[p].kind, pre |-> pre[p]])
               ELSE None
    /\ pc' = [pc EXCEPT ![p] = "idle"]
    /\ req' = [req EXCEPT ![p] = NoReq]
    /\ class_obj' = [class_obj EXCEPT ![p] = None]
    /\ result' = [result EXCEPT ![p] = NoResult]
    /\ pre' = [pre EXCEPT ![p] = NoPre]
    /\ solo' = [solo EXCEPT ![p] = FALSE]
    /\ changed' = [changed EXCEPT ![p] = FALSE]
    /\ exc' = [exc EXCEPT ![p] = NoExc]
    /\ UNCHANGED << classes, bookings, now, lock, tx, ncalls >>

\* Time passes.
Tick ==
    /\ now < MaxTime
    /\ now' = now + 1
    /\ UNCHANGED << classes, bookings, pc, req, class_obj, lock, tx, result,
                    pre, solo, exc, changed, last, ncalls >>

Next ==
    \/ \E p \in Procs, c \in RequestClassIds, e \in Emails, ctx \in DbContexts :
          StartBooking(p, c, e, ctx)
    \/ \E p \in Procs, c \in RequestClassIds, e \in Emails :
          StartRepoBooking(p, c, e)
    \/ \E p \in Procs : SvcGetClass(p)
    \/ \E p \in Procs : SvcCheckExisting(p)
    \/ \E p \in Procs : RepoBegin(p)
    \/ \E p \in Procs : RepoInsert(p)
    \/ \E p \in Procs : RepoUpdateSlots(p)
    \/ \E p \in Procs : RepoCommit(p)
    \/ \E p \in Procs : RepoCommitBusy(p)
    \/ \E p \in Procs : StorageException(p)
    \/ \E p \in Procs : Crash(p)
    \/ \E p \in Procs, c \in RequestClassIds : UpdateClassSlots(p, c)
    \/ \E p \in Procs, e \in Emails : CancelBooking(p, 1, e)
    \/ \E p \in Procs, c \in RequestClassIds : GetClassAvailability(p, c)
    \/ \E p \in Procs, c \in RequestClassIds, e \in Emails : CheckExisting(p, c, e)
    \/ \E p \in Procs, e \in LookupEmails, ctx \in DbContexts :
          GetBookingsByEmail(p, e, ctx)
    \/ \E p \in Procs : GetAllUpcomingClasses(p)
    \/ \E p \in Procs : Return(p)
    \/ Tick

Spec == Init /\ [][Next]_vars

\* The next statement of p's create_booking.  Each call runs in a worker of
\* its own that the operating system keeps scheduling; sqlite3 answers every
\* lock request within its busy timeout, with the lock or with "database is
\* locked".
BookingStep(p) ==
    \/ SvcGetClass(p)
    \/ SvcCheckExisting(p)
    \/ RepoBegin(p)
    \/ RepoInsert(p)
    \/ RepoUpdateSlots(p)
    \/ RepoCommit(p)
    \/ RepoCommitBusy(p)

LiveSpec == Init /\ [][Next]_vars /\ \A p \in Procs : WF_vars(BookingStep(p))

\* ================================================================ claims
\* The verdict of the specification a BookingResult stands for.  MsgFailed has
\* no counterpart among the specified reasons.
VerdictOf(r) ==
    IF r.success THEN "Confirmed"
    ELSE IF r.message = MsgNotFound THEN "ClassNotFound"
    ELSE IF r.message = MsgPast THEN "ClassInPast"
    ELSE IF r.message = MsgFull THEN "ClassFull"
    ELSE IF r.message = MsgDuplicate THEN "DuplicateBooking"
    ELSE IF r.message = MsgInternal THEN "StorageFailure"
    ELSE "Unclassified"

\* p's attempt_booking has returned and its answer is in result[p].
BookingDone(p) == pc[p] = "done" /\ req[p].op = "book"
\* The repository of p's call works on a context manager.
Wired(p) == req[p].db_context = DbContextManager
\* Class c exists and has not started.
Future(c) == c \in DOMAIN classes /\ now < Instant(classes[c].datetime_utc)
\* No store operation of p's call raised.
NoException(p) == exc[p].kind = "none"
\* Rows of the committed bookings table
RowsOfClass(c) == {i \in DOMAIN bookings : bookings[i].class_id = c}
ConfirmedRows(c, e) ==
    {i \in RowsOfClass(c) : /\ bookings[i].client_email = e
                            /\ bookings[i].status = "confirmed"}

\* C1 (as claimed): two concurrent attempts from distinct emails on a future
\* class that had available_slots = 1 when each began, with no storage error
\* other than lock contention: exactly one is Confirmed and the other is
\* Rejected(ClassFull).
C1_RaceSafety ==
    \A p, q \in Procs :
        ( /\ p # q
          /\ BookingDone(p) /\ BookingDone(q)
          /\ Wired(p) /\ Wired(q)
          /\ ~solo[p] /\ ~solo[q]
          /\ req[p].class_id = req[q].class_id
          /\ req[p].client_email # req[q].client_email
          /\ Future(req[p].class_id)
          /\ pre[p].avail = 1 /\ pre[q].avail = 1
          /\ ~pre[p].dup /\ ~pre[q].dup
          /\ exc[p].kind # "io" /\ exc[q].kind # "io" )
        => \/ VerdictOf(result[p]) = "Confirmed" /\ VerdictOf(result[q]) = "ClassFull"
           \/ VerdictOf(result[q]) = "Confirmed" /\ VerdictOf(result[p]) = "ClassFull"

\* C2: in the committed database and in every transaction's own view of it,
\* 0 <= available_slots <= total_slots for every class.
C2_CapacityInvariant ==
    /\ \A c \in DOMAIN classes :
          /\ 0 <= classes[c].available_slots
          /\ classes[c].available_slots <= classes[c].total_slots
    /\ \A p \in Procs : \A c \in DOMAIN classes :
          /\ 0 <= CommittedClasses(p)[c].available_slots
          /\ CommittedClasses(p)[c].available_slots <= classes[c].total_slots

\* C2 witness: bookings have taken a class down to its last slot and below no
\* further, while a standalone decrement has reported on it.
C2_Witness ==
    \E p \in Procs : \E c \in DOMAIN classes :
        /\ classes[c].available_slots = 0
        /\ RowsOfClass(c) # {}
        /\ pc[p] = "done" /\ req[p].op = "slots" /\ req[p].class_id = c

\* C3: the committed bookings hold at most one confirmed row per
\* (class_id, client_email).
C3_OneConfirmedPerPair ==
    \A c \in ClassIds, e \in Emails : Cardinality(ConfirmedRows(c, e)) <= 1

\* C3 witness: two overlapping attempts with the same class and email have
\* both returned, and the pair holds its one confirmed row.
C3_Witness ==
    \E p, q \in Procs :
        /\ p # q
        /\ BookingDone(p) /\ BookingDone(q)
        /\ ~solo[p] /\ ~solo[q]
        /\ req[p].class_id = req[q].class_id
        /\ req[p].client_email = req[q].client_email
        /\ ~pre[p].dup /\ ~pre[q].dup
        /\ result[p].success
        /\ Cardinality(ConfirmedRows(req[p].class_id, req[p].client_email)) = 1

\* C4: in the committed database, for every class the slots consumed since the
\* seed (where available_slots = total_slots and no booking exists) equal the
\* booking rows of that class.
C4_NoPartialState ==
    \A c \in DOMAIN classes :
        classes[c].total_slots - classes[c].available_slots
            = Cardinality(RowsOfClass(c))

\* C4 witness: a storage exception hit a transaction after its INSERT and
\* before its UPDATE, in a database that holds a committed booking.
C4_Witness ==
    \E p \in Procs :
        /\ BookingDone(p)
        /\ exc[p] = Exc("io", "repo_update")
        /\ bookings # << >>

\* C5: a booking call that returned a rejection has not changed the committed
\* database in any of its steps.
C5_NoEffectOnRejection ==
    \A p \in Procs :
        (BookingDone(p) /\ ~result[p].success) => ~changed[p]

\* C5 witness: a call was rejected by an exception raised after its INSERT and
\* its UPDATE, at the commit.
C5_Witness ==
    \E p \in Procs :
        /\ BookingDone(p) /\ ~result[p].success
        /\ exc[p].at = "repo_commit" /\ ~changed[p]

\* Two booking calls with the same arguments run one after the other, with no
\* other call in flight and no exception, on a class that is still in the
\* future after the second, by an email with no booking before the first:
\* `last` is the first call, p's the second.
SecondOfPair(p) ==
    /\ BookingDone(p) /\ solo[p] /\ Wired(p) /\ NoException(p)
    /\ last # None
    /\ Get(last).class_id = req[p].class_id
    /\ Get(last).client_email = req[p].client_email
    /\ Get(last).db_context = DbContextManager
    /\ Get(last).exc = "none"
    /\ ~Get(last).pre.dup
    /\ Future(req[p].class_id)
OneConfirmedOneDuplicate(m, r) ==
    \/ m = MsgSuccess /\ VerdictOf(r) = "DuplicateBooking"
    \/ m = MsgDuplicate /\ VerdictOf(r) = "Confirmed"

ReturningCaller(p) ==
    /\ BookingDone(p) /\ Wired(p) /\ NoException(p)
    /\ pre[p].dup
    /\ Future(req[p].class_id)

C8_NeverAdmittedAfterStart ==
    \A i \in DOMAIN bookings :
        bookings[i].booking_time < Instant(classes[bookings[i].class_id].datetime_utc)

\* C9: an attempt on an existing class with scheduled_at <= now when the call
\* begins is answered Rejected(ClassInPast), unless a store operation raised.
C9_PastClassGuard ==
    \A p \in Procs :
        (BookingDone(p) /\ Wired(p) /\ NoException(p) /\ pre[p].past)
        => VerdictOf(result[p]) = "ClassInPast"

\* C9 witness: the class is full, the caller holds a booking for it, and the
\* clock stands exactly at scheduled_at.
C9_Witness ==
    \E p \in Procs :
        /\ BookingDone(p) /\ Wired(p) /\ NoException(p) /\ pre[p].past
        /\ pre[p].avail = 0 /\ pre[p].dup
        /\ now = Instant(classes[req[p].class_id].datetime_utc)
        /\ VerdictOf(result[p]) = "ClassInPast"

\* C10 (as claimed): an attempt through the repository BookingRouter builds,
\* alone, on a future class with a free slot and no booking of the caller, is
\* Confirmed, takes one slot and inserts one confirmed row.
C10_BookingAsWired ==
    \A p \in Procs :
        ( /\ BookingDone(p)
          /\ req[p].db_context = DbFunction
          /\ solo[p]
          /\ Future(req[p].class_id)
          /\ pre[p].avail >= 1 /\ ~pre[p].dup
          /\ exc[p].kind # "io" )
        => /\ VerdictOf(result[p]) = "Confirmed"
           /\ classes[req[p].class_id].available_slots = pre[p].avail - 1
           /\ Cardinality(ConfirmedRows(req[p].class_id, req[p].client_email)) = 1

\* C11: an attempt with a class_id that no stored class has, on a repository
\* with a working db_context and with no store operation raising, is answered
\* Rejected(ClassNotFound), whatever the email, and no step of it changes the
\* database.
C11_ClassNotFound ==
    \A p \in Procs :
        ( /\ BookingDone(p) /\ Wired(p) /\ NoException(p)
          /\ req[p].class_id \notin DOMAIN classes )
        => /\ VerdictOf(result[p]) = "ClassNotFound"
           /\ ~changed[p]

\* C11 witness: such an attempt was answered while the database held a
\* committed booking.
C11_Witness ==
    \E p \in Procs :
        /\ BookingDone(p) /\ Wired(p) /\ NoException(p)
        /\ req[p].class_id = MissingClassId
        /\ VerdictOf(result[p]) = "ClassNotFound"
        /\ bookings # << >>

\* C12: an attempt on an existing class that is still in the future and had
\* available_slots = 0 when the call began, by an email with no booking for
\* it, is answered Rejected(ClassFull); available_slots stays 0 and no step of
\* the call changes the database.
C12_ClassFull ==
    \A p \in Procs :
        ( /\ BookingDone(p) /\ Wired(p) /\ NoException(p)
          /\ Future(req[p].class_id)
          /\ pre[p].avail = 0 /\ ~pre[p].dup )
        => /\ VerdictOf(result[p]) = "ClassFull"
           /\ classes[req[p].class_id].available_slots = 0
           /\ ~changed[p]

\* C12 witness: a newcomer was turned away from a class that others filled.
C12_Witness ==
    \E p \in Procs :
        /\ BookingDone(p) /\ Wired(p) /\ NoException(p)
        /\ Future(req[p].class_id)
        /\ pre[p].avail = 0 /\ ~pre[p].dup
        /\ RowsOfClass(req[p].class_id) # {}
        /\ VerdictOf(result[p]) = "ClassFull"

\* C13: a booking call in which a store operation raised returns
\* Rejected(StorageFailure) instead of the exception, and none of its steps
\* changed the committed database.
C13_StorageFailure ==
    \A p \in Procs :
        (BookingDone(p) /\ ~NoException(p))
        => /\ VerdictOf(result[p]) = "StorageFailure"
           /\ ~changed[p]

\* C13 witness: each of the five store operations has been the one that
\* raised; here the commit, after the INSERT and the UPDATE, with another
\* caller's booking already committed.
C13_Witness ==
    \E p \in Procs :
        /\ BookingDone(p)
        /\ exc[p] = Exc("io", "repo_commit")
        /\ VerdictOf(result[p]) = "StorageFailure"
        /\ bookings # << >>

\* C14 (as claimed): every answer of a booking call is Confirmed or a
\* rejection with one of the five specified reasons; none is unclassified.
C14_TypedVerdicts ==
    \A p \in Procs :
        BookingDone(p)
        => VerdictOf(result[p]) \in {"Confirmed", "ClassNotFound", "ClassInPast",
                                     "ClassFull", "DuplicateBooking",
                                     "StorageFailure"}

\* The steps of a booking call that run inside the repository's transaction.
InTransaction(p) ==
    pc[p] \in {"repo_begin", "repo_insert", "repo_update", "repo_commit"}

\* C15 (as claimed): the step at which a booking call is answered ClassFull
\* or DuplicateBooking is a step inside the transaction that would write.
C15_DecidedInsideTransaction ==
    [][\A p \in Procs :
          ( /\ pc[p] # "done" /\ pc'[p] = "done"
            /\ req[p].op = "book"
            /\ VerdictOf(result'[p]) \in {"ClassFull", "DuplicateBooking"} )
          => InTransaction(p)]_vars

\* p's update_class_slots has returned, having run with no other call in
\* flight.
SlotsDone(p) == pc[p] = "done" /\ req[p].op = "slots" /\ solo[p]

\* C16 (as claimed): update_class_slots returns true exactly when the class
\* had available_slots > 0, and exactly then the stored available_slots is
\* one less than before; otherwise the stored value is what it was.
C16_CompareAndDecrement ==
    \A p \in Procs :
        SlotsDone(p)
        => /\ result[p].value = (pre[p].avail > 0)
           /\ req[p].class_id \in DOMAIN classes
              => classes[req[p].class_id].available_slots
                    = IF result[p].value THEN pre[p].avail - 1 ELSE pre[p].avail

SpecStatusCodes(v) ==
    IF v = "Confirmed" THEN 200..299
    ELSE IF v = "ClassNotFound" THEN {404}
    ELSE IF v = "StorageFailure" THEN {500}
    ELSE {400}

\* C18 (as claimed): the response to a booking call has the status code the
\* specification gives its verdict, and a Confirmed one carries the booking id.
C18_StatusMapping ==
    \A p \in Procs :
        (BookingDone(p) /\ VerdictOf(result[p]) # "Unclassified")
        => /\ StatusCode(result[p]) \in SpecStatusCodes(VerdictOf(result[p]))
           /\ result[p].success
              => ResponseBookingId(result[p]) \in DOMAIN bookings

\* Booking b exists, is confirmed and belongs to email e.
Cancellable(b, e) ==
    /\ b \in DOMAIN bookings
    /\ bookings[b].status = "confirmed"
    /\ bookings[b].client_email = e

\* C19 (as claimed): cancel_booking answers Cancelled, with the booking's
\* status set to cancelled, or NotFoundOrNotOwned, with the booking not one
\* the caller could cancel.
C19_Cancellation ==
    \A p \in Procs :
        (pc[p] = "done" /\ req[p].op = "cancel")
        => \/ /\ result[p].message = MsgCancelled
              /\ req[p].booking_id \in DOMAIN bookings
              /\ bookings[req[p].booking_id].status = "cancelled"
           \/ /\ result[p].message = MsgNotOwned
              /\ ~Cancellable(req[p].booking_id, req[p].client_email)

\* p's create_booking has been entered and has not returned.
BookingInFlight(p) == pc[p] \notin {"idle", "done"}

\* C20: under any interleaving, a booking call in flight comes to an end: it
\* returns its answer (or its worker dies, which returns the caller to idle);
\* and a call that sqlite3 refused with "database is locked", at the INSERT or
\* at the commit, is answered Rejected(StorageFailure) with its transaction
\* gone, its lock released and no change to the committed database.
C20_EventuallyAnswered ==
    /\ \A p \in Procs : BookingInFlight(p) ~> ~BookingInFlight(p)
    /\ [](\A p \in Procs :
            (BookingDone(p) /\ exc[p].kind = "locked")
            => /\ VerdictOf(result[p]) = "StorageFailure"
               /\ ~changed[p]
               /\ tx[p] = NoTx /\ lock[p] = "none")

\* C20 witness: a call that had inserted and decremented was refused the
\* commit because the other connection kept its read lock.
C20_Witness ==
    \E p \in Procs :
        /\ BookingDone(p)
        /\ exc[p] = Exc("locked", "repo_commit")
        /\ classes[req[p].class_id].available_slots = pre[p].avail

\* The step in which p's call of the single-statement operation op is made
\* and answered.
Answers(p, op) == pc[p] = "idle" /\ pc'[p] = "done" /\ req'[p].op = op

\* C21: get_class_availability answers None for a class_id with no row, and
\* otherwise the total_slots and available_slots of the row as it is at that
\* instant, booked_slots their difference and is_available whether a slot is
\* left; the step changes neither table.
C21_AvailabilityQuery ==
    [][\A p \in Procs :
          Answers(p, "availability")
          => LET c == req'[p].class_id
                 v == result'[p].value IN
             /\ classes' = classes /\ bookings' = bookings
             /\ IF c \notin DOMAIN classes THEN v = << >>
                ELSE /\ Len(v) = 1
                     /\ v[1].total_slots = classes[c].total_slots
                     /\ v[1].available_slots = classes[c].available_slots
                     /\ v[1].booked_slots
                           = classes[c].total_slots - classes[c].available_slots
                     /\ v[1].is_available = (classes[c].available_slots > 0)]_vars

\* C21 witness: the query has reported a class with a slot taken and none
\* left.
C21_Witness ==
    \E p \in Procs :
        /\ pc[p] = "done" /\ req[p].op = "availability"
        /\ Len(result[p].value) = 1
        /\ result[p].value[1].booked_slots >= 1
        /\ ~result[p].value[1].is_available

\* p's direct BookingRepository.create_booking has returned.
RepoBookingDone(p) == pc[p] = "done" /\ req[p].op = "repo_book"
\* When p's call began the class existed, had a slot left and the email held
\* no confirmed booking for it.
Bookable(p) ==
    /\ req[p].class_id \in DOMAIN classes
    /\ pre[p].avail > 0
    /\ ~pre[p].dup

\* C22: a direct BookingRepository.create_booking in which nothing raised
\* returns a Booking only if the class existed, had available_slots > 0 and
\* the email had no confirmed booking for it; the Booking is the committed
\* row, with status confirmed.  When the class is missing, full or already
\* booked by the email, it returns None and no step of it changes the database.
C22_RepositoryGuard ==
    \A p \in Procs :
        (RepoBookingDone(p) /\ NoException(p))
        => LET v == result[p].value IN
           /\ v # None
              => /\ Bookable(p)
                 /\ v[1].status = "confirmed"
                 /\ v[1].class_id = req[p].class_id
                 /\ v[1].client_email = req[p].client_email
                 /\ v[1].id \in DOMAIN bookings
                 /\ bookings[v[1].id] = v[1]
           /\ ~Bookable(p) => (v = None /\ ~changed[p])

\* C22 witness: a direct call was refused for a class with a slot left,
\* because the email already held a booking for it.
C22_Witness ==
    \E p \in Procs :
        /\ RepoBookingDone(p) /\ NoException(p)
        /\ pre[p].dup /\ pre[p].avail > 0
        /\ result[p].value = None

\* C23: check_existing_booking answers true exactly when the bookings hold a
\* row with that class_id, that client_email and status confirmed, and the
\* step changes nothing.
C23_HasConfirmedBooking ==
    [][\A p \in Procs :
          Answers(p, "exists")
          => /\ result'[p].value
                  = (ConfirmedRows(req'[p].class_id, req'[p].client_email) # {})
             /\ classes' = classes /\ bookings' = bookings]_vars

\* C23 witness: the answer was false for a pair whose class holds a confirmed
\* booking of another email.
C23_Witness ==
    \E p \in Procs :
        /\ pc[p] = "done" /\ req[p].op = "exists"
        /\ result[p].value = FALSE
        /\ \E i \in RowsOfClass(req[p].class_id) :
               /\ bookings[i].client_email # req[p].client_email
               /\ bookings[i].status = "confirmed"

\* The rows a lookup by email answered with, by id.
IdsOf(v) == {v[k].id : k \in DOMAIN v}

\* C24: get_bookings_by_email with an email that has no "@" answers the empty
\* list, even where a query of the store would raise; with any other email,
\* on a repository with a working db_context, it answers with exactly the
\* committed booking rows of that email, each once and as stored.
C24_LookupByEmail ==
    [][\A p \in Procs :
          Answers(p, "lookup")
          => LET e == req'[p].client_email
                 v == result'[p].value IN
             /\ e = InvalidEmail => result'[p] = ValueResult(<< >>)
             /\ (e # InvalidEmail /\ req'[p].db_context = DbContextManager)
                => /\ result'[p] # Raised
                   /\ IdsOf(v) = {i \in DOMAIN bookings :
                                     bookings[i].client_email = e}
                   /\ Len(v) = Cardinality(IdsOf(v))
                   /\ \A k \in DOMAIN v : v[k] = bookings[v[k].id]]_vars

\* C24 witness: a lookup has answered with the one booking confirmed for its
\* email.
C24_Witness ==
    \E p \in Procs :
        /\ pc[p] = "done" /\ req[p].op = "lookup"
        /\ Len(result[p].value) = 1
        /\ result[p].value[1].client_email = req[p].client_email
        /\ result[p].value[1].status = "confirmed"

\* C25: get_all_upcoming_classes answers with exactly the classes whose
\* scheduled_at is later than now, each once, in ascending order of
\* scheduled_at, and the step changes nothing.
C25_UpcomingClasses ==
    [][\A p \in Procs :
          Answers(p, "upcoming")
          => LET v == result'[p].value IN
             /\ {v[k].id : k \in DOMAIN v}
                   = {c \in DOMAIN classes : now < Instant(classes[c].datetime_utc)}
             /\ \A j, k \in DOMAIN v :
                   j < k => Instant(v[j].row.datetime_utc)
                              < Instant(v[k].row.datetime_utc)
             /\ \A k \in DOMAIN v : v[k].row = classes[v[k].id]
             /\ classes' = classes /\ bookings' = bookings]_vars

\* C25 witness: the list was answered at the instant a class started, without
\* that class and with a later one.
C25_Witness ==
    \E p \in Procs :
        /\ pc[p] = "done" /\ req[p].op = "upcoming"
        /\ \E c \in DOMAIN classes : Instant(classes[c].datetime_utc) = now
        /\ Len(result[p].value) = 1
        /\ now < Instant(result[p].value[1].row.datetime_utc)

\* The step in which p's create_booking commits and returns its Booking.
CommitsBooking(p) ==
    /\ pc[p] = "repo_commit" /\ pc'[p] = "done"
    /\ IF req[p].op = "book" THEN result'[p].success
       ELSE result'[p].value # None

\* C26: in every step the bookings keep their rows, and each row its id,
\* class_id, client_email and booking_time; a status stays what it is or goes
\* from confirmed to cancelled; a step adds at most one row, with status
\* confirmed, and only as the commit of a successful booking transaction.
C26_BookingLifecycle ==
    [][/\ Len(bookings') >= Len(bookings)
       /\ \A i \in DOMAIN bookings :
             /\ bookings'[i].id = bookings[i].id
             /\ bookings'[i].class_id = bookings[i].class_id
             /\ bookings'[i].client_email = bookings[i].client_email
             /\ bookings'[i].booking_time = bookings[i].booking_time
             /\ \/ bookings'[i].status = bookings[i].status
                \/ /\ bookings[i].status = "confirmed"
                   /\ bookings'[i].status = "cancelled"
       /\ \A i \in DOMAIN bookings' :
             bookings'[i].status \in {"confirmed", "cancelled"}
       /\ Len(bookings') > Len(bookings)
          => /\ Len(bookings') = Len(bookings) + 1
             /\ bookings'[Len(bookings')].status = "confirmed"
             /\ \E p \in Procs : CommitsBooking(p)]_vars

\* C26 witness: cancel_booking was called for a committed booking by its
\* owner and answered, and the row is there as it was, confirmed.
C26_Witness ==
    \E p \in Procs :
        /\ pc[p] = "done" /\ req[p].op = "cancel"
        /\ req[p].booking_id \in DOMAIN bookings
        /\ bookings[req[p].booking_id].client_email = req[p].client_email
        /\ bookings[req[p].booking_id].status = "confirmed"

\* C27: every committed booking row, and every row a transaction has inserted
\* and not yet committed, has the class_id of a stored class.
C27_ReferentialIntegrity ==
    /\ \A i \in DOMAIN bookings : bookings[i].class_id \in DOMAIN classes
    /\ \A p \in Procs : tx[p].ins => req[p].class_id \in DOMAIN classes

\* C27 witness: the repository was asked directly for a booking of a class_id
\* that no class has, refused it, and the bookings hold rows.
C27_Witness ==
    \E p \in Procs :
        /\ RepoBookingDone(p) /\ NoException(p)
        /\ req[p].class_id = MissingClassId
        /\ result[p].value = None
        /\ bookings # << >>

\* C28: no step changes the set of classes, or the datetime_utc or the
\* total_slots of a class.
C28_ClassImmutability ==
    [][/\ DOMAIN classes' = DOMAIN classes
       /\ \A c \in DOMAIN classes :
             /\ classes'[c].datetime_utc = classes[c].datetime_utc
             /\ classes'[c].total_slots = classes[c].total_slots]_vars

\* C28 witness: every slot of a class has been booked.
C28_Witness ==
    \E c \in DOMAIN classes :
        /\ classes[c].total_slots >= 2
        /\ classes[c].available_slots = 0
        /\ Cardinality(RowsOfClass(c)) = classes[c].total_slots

\* The booking id p's create_booking reported, 0 when it reported none.
ReportedId(p, r) ==
    IF req[p].op = "book" THEN (IF r.success THEN r.booking_id ELSE 0)
    ELSE IF req[p].op = "repo_book" /\ r.value # None /\ r # Raised
         THEN r.value[1].id
    ELSE 0

UpdateFindsSlot ==
    \A p \in Procs :
        pc[p] = "repo_update" => SlotsRowCount(req[p].class_id) > 0

\* C31 (as claimed): two overlapping attempts from distinct emails without a
\* booking, on a future class that had available_slots >= 2 when each began,
\* with no storage error other than lock contention, are both Confirmed.
C31_NoSpuriousRejection ==
    \A p, q \in Procs :
        ( /\ p # q
          /\ BookingDone(p) /\ BookingDone(q)
          /\ Wired(p) /\ Wired(q)
          /\ ~solo[p] /\ ~solo[q]
          /\ req[p].class_id = req[q].class_id
          /\ req[p].client_email # req[q].client_email
          /\ Future(req[p].class_id)
          /\ pre[p].avail >= 2 /\ pre[q].avail >= 2
          /\ ~pre[p].dup /\ ~pre[q].dup
          /\ exc[p].kind # "io" /\ exc[q].kind # "io" )
        => /\ VerdictOf(result[p]) = "Confirmed"
           /\ VerdictOf(result[q]) = "Confirmed"

\* C32: in every step the available_slots of every class stays what it is or
\* drops by exactly 1; a cancel_booking, whatever it answers, leaves it.
C32_SlotsNeverIncrease ==
    [][/\ \A c \in DOMAIN classes :
             \/ classes'[c].available_slots = classes[c].available_slots
             \/ classes'[c].available_slots = classes[c].available_slots - 1
       /\ \A p \in Procs : Answers(p, "cancel") => classes' = classes]_vars

\* C32 witness: the owner of a committed booking has called cancel_booking
\* and been answered, and the slot of the booking is still taken.
C32_Witness ==
    \E p \in Procs :
        /\ pc[p] = "done" /\ req[p].op = "cancel"
        /\ Cancellable(req[p].booking_id, req[p].client_email)
        /\ LET c == bookings[req[p].booking_id].class_id IN
              classes[c].available_slots
                 = classes[c].total_slots - Cardinality(RowsOfClass(c))

\* The confirmed bookings of the caller's email for the caller's class that
\* the store held before the call: those it holds now, less the one a
\* Confirmed call has added.
OwnRowsBefore(p) ==
    Cardinality(ConfirmedRows(req[p].class_id, req[p].client_email))
      - (IF result[p].success THEN 1 ELSE 0)

ReadOps == {"availability", "exists", "lookup", "upcoming"}
Reads(p) ==
    \/ \E op \in ReadOps : Answers(p, op)
    \/ /\ pc[p] \in {"svc_get_class", "svc_check_existing"}
       /\ pc'[p] # pc[p]

\* C34: a step that is a read leaves every class row and every booking row as
\* it is, and with them the open transaction and the lock of every other
\* connection.
C34_ReadsArePure ==
    [][\A p \in Procs :
          Reads(p)
          => /\ classes' = classes /\ bookings' = bookings
             /\ \A q \in Procs \ {p} : tx'[q] = tx[q] /\ lock'[q] = lock[q]]_vars

\* C34 witness: a lookup by email was answered while a transaction of another
\* connection held an uncommitted booking of that email, and did not show it.
C34_Witness ==
    \E p, q \in Procs :
        /\ p # q
        /\ pc[p] = "done" /\ req[p].op = "lookup"
        /\ req[p].db_context = DbContextManager
        /\ tx[q].ins /\ req[q].client_email = req[p].client_email
        /\ result[p].value = << >>

\* C35: no two committed booking rows have one id, and no two Confirmed
\* answers that callers hold carry one booking_id.
C35_UniqueBookingIds ==
    /\ \A i, j \in DOMAIN bookings :
          i # j => bookings[i].id # bookings[j].id
    /\ \A p, q \in Procs :
          ( /\ p # q
            /\ pc[p] = "done" /\ pc[q] = "done"
            /\ ReportedId(p, result[p]) # 0
            /\ ReportedId(q, result[q]) # 0 )
          => ReportedId(p, result[p]) # ReportedId(q, result[q])

\* C35 witness: one attempt was rolled back after its INSERT, and another
\* was Confirmed with the id of the newest row.
C35_Witness ==
    \E p, q \in Procs :
        /\ p # q
        /\ BookingDone(p) /\ exc[p].at \in {"repo_update", "repo_commit"}
        /\ BookingDone(q) /\ result[q].success
        /\ result[q].booking_id = Len(bookings)

====
